---- MODULE Spec2Model ----
(***************************************************************************)
(* Clock configuration driver of the STM32F103xB (Core/Src/ACDC_CLOCK.c).  *)
(*                                                                         *)
(* The three registers the driver touches are records of their bit fields, *)
(* each field holding the field's value (the register value shifted right  *)
(* by the field's position).  CLOCK_SetSystemClockSpeed is modelled one    *)
(* register access per step, labelled by the source line of the access;    *)
(* the hardware status flags follow their control bits in steps of their   *)
(* own, so a busy-wait loop of the driver is a step guarded by the flag.   *)
(***************************************************************************)
EXTENDS Integers, FiniteSets, Sequences, TLC

VARIABLES
    pc,             \* position of the driver: "idle", a source line, or "ret"
    op,             \* the public function that is running or has just returned
    arg,            \* its argument (SCS_x, APB_DIV_x, ADC_DIV_x or MCO_x)
    entry,          \* registers and statics as they were when it was called
    CR,             \* RCC->CR     [HSEON, HSERDY, PLLON, PLLRDY]
    CFGR,           \* RCC->CFGR   [SW, SWS, HPRE, PPRE1, PPRE2, ADCPRE, PLLSRC, PLLXTPRE, PLLMULL, MCO]
    ACR,            \* FLASH->ACR  [LATENCY, PRFTBE, PRFTBS]
    currentSCS,     \* static SystemClockSpeed currentSCS
    APB1_Prescaler, \* static APB_Prescaler APB1_Prescaler
    APB2_Prescaler, \* static APB_Prescaler APB2_Prescaler
    timerCalls,     \* number of TIMER_Init calls made by the running function
    timerSCS        \* the argument of the last TIMER_Init call

vars == <<pc, op, arg, entry, CR, CFGR, ACR, currentSCS,
          APB1_Prescaler, APB2_Prescaler, timerCalls, timerSCS>>

regs == <<CR, CFGR, ACR>>
statics == <<currentSCS, APB1_Prescaler, APB2_Prescaler>>

----------------------------------------------------------------------------
(* Bit operations on field values. *)

RECURSIVE BitOr(_, _)
BitOr(a, b) ==
    IF a = 0 THEN b
    ELSE IF b = 0 THEN a
    ELSE (IF a % 2 = 1 \/ b % 2 = 1 THEN 1 ELSE 0) + 2 * BitOr(a \div 2, b \div 2)

RECURSIVE BitAnd(_, _)
BitAnd(a, b) ==
    IF a = 0 \/ b = 0 THEN 0
    ELSE (IF a % 2 = 1 /\ b % 2 = 1 THEN 1 ELSE 0) + 2 * BitAnd(a \div 2, b \div 2)

----------------------------------------------------------------------------
(* Values of the device header and of ACDC_CLOCK.h, as field values. *)

MHz == 1000000

RCC_CFGR_SW_HSE == 1
RCC_CFGR_SW_PLL == 2
RCC_CFGR_SW_Msk == 3
RCC_CFGR_SWS_HSE == 1
RCC_CFGR_SWS_PLL == 2

RCC_CFGR_HPRE_DIV1 == 0
RCC_CFGR_HPRE_DIV2 == 8
RCC_CFGR_HPRE_DIV4 == 9
RCC_CFGR_HPRE_DIV8 == 10

RCC_CFGR_PPRE1_DIV1 == 0
RCC_CFGR_PPRE1_DIV2 == 4

RCC_CFGR_PLLXTPRE_HSE == 0
RCC_CFGR_PLLXTPRE_HSE_DIV2 == 1

RCC_CFGR_MCO_PLLCLK_DIV2 == 7

FLASH_ACR_LATENCY_0 == 0
FLASH_ACR_LATENCY_1 == 1
FLASH_ACR_LATENCY_2 == 2

APB_DIV_1 == 0
APB_DIV_2 == 4
APB_DIV_4 == 5
APB_DIV_8 == 6
APB_DIV_16 == 7

SCS_24MHz == 24000000
SCS_36MHz == 36000000
SCS_48MHz == 48000000

MAX_MCO_CLK_SPEED == 50000000

(* The case labels of the switch of CLOCK_SetSystemClockSpeed. *)
BandNoDiv == { n * MHz : n \in {16, 24, 32, 40, 48, 56, 64, 72} }
BandDiv2  == { n * MHz : n \in {8, 12, 20, 28, 36, 44, 52, 60} }
BandAhb2  == { n * MHz : n \in {4, 6, 10, 14, 18, 22, 26, 30} }
BandAhb4  == { n * MHz : n \in {2, 3, 5, 7, 9, 11, 13, 15} }
BandAhb8  == { 1 * MHz }

SupportedSpeeds == BandNoDiv \cup BandDiv2 \cup BandAhb2 \cup BandAhb4 \cup BandAhb8


(* Values outside the enumeration that a caller can still pass. *)
UnsupportedSpeeds == { 17 * MHz, 80 * MHz }

SystemClockSpeeds == SupportedSpeeds \cup UnsupportedSpeeds

APB_Prescalers == { APB_DIV_1, APB_DIV_2, APB_DIV_4, APB_DIV_8, APB_DIV_16 }
ADC_Prescalers == 0 .. 3
MicroClockOutputs == { 0, 4, 5, 6, 7 }

----------------------------------------------------------------------------
(* The switch of CLOCK_SetSystemClockSpeed: what each case passes to       *)
(* SetFlashMemorySpeed and ORs into RCC->CFGR.                             *)

CaseHPRE(SCS_x) ==
    IF SCS_x \in BandNoDiv \cup BandDiv2 THEN RCC_CFGR_HPRE_DIV1
    ELSE IF SCS_x \in BandAhb2 THEN RCC_CFGR_HPRE_DIV2
    ELSE IF SCS_x \in BandAhb4 THEN RCC_CFGR_HPRE_DIV4
    ELSE RCC_CFGR_HPRE_DIV8

CasePLLXTPRE(SCS_x) ==
    IF SCS_x \in BandNoDiv THEN RCC_CFGR_PLLXTPRE_HSE
    ELSE RCC_CFGR_PLLXTPRE_HSE_DIV2

CaseDivisor_LinearLowBand(SCS_x) ==
    IF SCS_x \in BandNoDiv THEN 8000000
    ELSE IF SCS_x \in BandDiv2 THEN 4000000
    ELSE IF SCS_x \in BandAhb2 THEN 2000000
    ELSE 1000000

CaseDivisor(SCS_x) ==
    IF SCS_x \in BandNoDiv THEN 8000000
    ELSE IF SCS_x \in BandDiv2 THEN 4000000
    ELSE IF SCS_x \in BandAhb2 THEN 2000000
    ELSE IF SCS_x \in BandAhb4 THEN 1000000
    ELSE 500000

CasePLLMULL_OffByOne(SCS_x) == (SCS_x \div CaseDivisor(SCS_x)) - 1

CasePLLMULL(SCS_x) == (SCS_x \div CaseDivisor(SCS_x)) - 2

FlashLatencyFor_Exclusive(SCS_x) ==
    IF SCS_x < SCS_24MHz THEN FLASH_ACR_LATENCY_0
    ELSE IF SCS_x < SCS_48MHz THEN FLASH_ACR_LATENCY_1
    ELSE FLASH_ACR_LATENCY_2

(* SetFlashMemorySpeed, lines 203-209: the latency it selects. *)
FlashLatencyFor(SCS_x) ==
    IF SCS_x <= SCS_24MHz THEN FLASH_ACR_LATENCY_0
    ELSE IF SCS_x <= SCS_48MHz THEN FLASH_ACR_LATENCY_1
    ELSE FLASH_ACR_LATENCY_2

Apb1PrescalerFor_Inclusive(SCS_x) == IF SCS_x >= SCS_36MHz THEN APB_DIV_2 ELSE APB_DIV_1

(* Line 116. *)
Apb1PrescalerFor(SCS_x) == IF SCS_x > SCS_36MHz THEN APB_DIV_2 ELSE APB_DIV_1

APBxPrescalerToDivisor_Swapped(APB_DIV_x) ==
    CASE APB_DIV_x = APB_DIV_16 -> 8
      [] APB_DIV_x = APB_DIV_8 -> 16
      [] APB_DIV_x = APB_DIV_4 -> 4
      [] APB_DIV_x = APB_DIV_2 -> 2
      [] OTHER -> 1

APBxPrescalerToDivisor(APB_DIV_x) ==
    CASE APB_DIV_x = APB_DIV_16 -> 16
      [] APB_DIV_x = APB_DIV_8 -> 8
      [] APB_DIV_x = APB_DIV_4 -> 4
      [] APB_DIV_x = APB_DIV_2 -> 2
      [] OTHER -> 1

----------------------------------------------------------------------------
(* The query functions. *)

CLOCK_GetSystemClockSpeed == currentSCS

CLOCK_GetAPB1ClockSpeed ==
    CLOCK_GetSystemClockSpeed \div APBxPrescalerToDivisor(APB1_Prescaler)

CLOCK_GetAPB2ClockSpeed ==
    CLOCK_GetSystemClockSpeed \div APBxPrescalerToDivisor(APB2_Prescaler)

CLOCK_GetAPB1TimerClockSpeed_UndividedBus ==
    IF APB1_Prescaler = APB_DIV_1 THEN CLOCK_GetAPB1ClockSpeed
    ELSE CLOCK_GetAPB1ClockSpeed * 2

(* The product stays below 2^31 for every speed of SystemClockSpeeds, so    *)
(* the 32-bit multiplication of line 137 does not wrap.                     *)
CLOCK_GetAPB1TimerClockSpeed == CLOCK_GetAPB1ClockSpeed * 2

----------------------------------------------------------------------------
(* Calls and returns. *)

Snapshot == [CR |-> CR, CFGR |-> CFGR, ACR |-> ACR, currentSCS |-> currentSCS,
             APB1_Prescaler |-> APB1_Prescaler, APB2_Prescaler |-> APB2_Prescaler]

ResetCR == [HSEON |-> 0, HSERDY |-> 0, PLLON |-> 0, PLLRDY |-> 0]
ResetCFGR == [SW |-> 0, SWS |-> 0, HPRE |-> 0, PPRE1 |-> 0, PPRE2 |-> 0, ADCPRE |-> 0,
              PLLSRC |-> 0, PLLXTPRE |-> 0, PLLMULL |-> 0, MCO |-> 0]
ResetACR == [LATENCY |-> 0, PRFTBE |-> 1, PRFTBS |-> 1]

NoEntry == [CR |-> ResetCR, CFGR |-> ResetCFGR, ACR |-> ResetACR, currentSCS |-> 0,
            APB1_Prescaler |-> 0, APB2_Prescaler |-> 0]

(* The statics are zero-initialised; the registers hold their reset values, *)
(* the prefetch buffer on or off with its status agreeing.                  *)
Init ==
    /\ pc = "idle"
    /\ op = "none"
    /\ arg = 0
    /\ entry = NoEntry
    /\ CR = ResetCR
    /\ CFGR = ResetCFGR
    /\ \E b \in {0, 1} : ACR = [LATENCY |-> 0, PRFTBE |-> b, PRFTBS |-> b]
    /\ currentSCS = 0
    /\ APB1_Prescaler = 0
    /\ APB2_Prescaler = 0
    /\ timerCalls = 0
    /\ timerSCS = 0

(* The step from one access of the running function to the next. *)
Goto(from, to) == pc = from /\ pc' = to /\ UNCHANGED <<op, arg, entry>>

Return ==
    /\ pc = "ret"
    /\ pc' = "idle"
    /\ op' = "none"
    /\ arg' = 0
    /\ entry' = NoEntry
    /\ timerCalls' = 0
    /\ UNCHANGED <<regs, statics, timerSCS>>

----------------------------------------------------------------------------
(* The prescaler and output setters.  Each is one read-modify-write of     *)
(* RCC->CFGR, and for the APB setters the store into the static.           *)

(* Lines 158-160, the body of CLOCK_SetAPB1Prescaler. *)
SetAPB1Prescaler(APB_DIV_x) ==
    /\ CFGR' = [CFGR EXCEPT !.PPRE1 = BitAnd(APB_DIV_x, 7)]
    /\ APB1_Prescaler' = APB_DIV_x
    /\ UNCHANGED <<CR, ACR, currentSCS, APB2_Prescaler>>

SetAPB2Prescaler_Ppre1(APB_DIV_x) ==
    /\ CFGR' = [CFGR EXCEPT !.PPRE1 = BitAnd(APB_DIV_x, 7)]
    /\ APB2_Prescaler' = APB_DIV_x
    /\ UNCHANGED <<CR, ACR, currentSCS, APB1_Prescaler>>

(* Lines 164-166, the body of CLOCK_SetAPB2Prescaler. *)
SetAPB2Prescaler(APB_DIV_x) ==
    /\ CFGR' = [CFGR EXCEPT !.PPRE2 = BitAnd(APB_DIV_x, 7)]
    /\ APB2_Prescaler' = APB_DIV_x
    /\ UNCHANGED <<CR, ACR, currentSCS, APB1_Prescaler>>

(* Line 154. *)
SetADCPrescaler(ADC_DIV_x) ==
    /\ CFGR' = [CFGR EXCEPT !.ADCPRE = ADC_DIV_x]
    /\ UNCHANGED <<CR, ACR, statics>>

McoSelection_NoClamp(MCO_x) == MCO_x

(* Lines 145-150: the selector CLOCK_SetMcoOutput writes. *)
McoSelection(MCO_x) ==
    IF currentSCS > MAX_MCO_CLK_SPEED THEN RCC_CFGR_MCO_PLLCLK_DIV2 ELSE MCO_x

SetMcoOutput(MCO_x) ==
    /\ CFGR' = [CFGR EXCEPT !.MCO = BitOr(BitAnd(@, 0), McoSelection(MCO_x))]
    /\ UNCHANGED <<CR, ACR, statics>>

Called(name, x) ==
    /\ pc = "idle"
    /\ pc' = "ret"
    /\ op' = name
    /\ arg' = x
    /\ entry' = Snapshot
    /\ UNCHANGED <<timerCalls, timerSCS>>

CLOCK_SetAPB1Prescaler ==
    \E APB_DIV_x \in APB_Prescalers :
        Called("CLOCK_SetAPB1Prescaler", APB_DIV_x) /\ SetAPB1Prescaler(APB_DIV_x)

CLOCK_SetAPB2Prescaler ==
    \E APB_DIV_x \in APB_Prescalers :
        Called("CLOCK_SetAPB2Prescaler", APB_DIV_x) /\ SetAPB2Prescaler(APB_DIV_x)

CLOCK_SetADCPrescaler ==
    \E ADC_DIV_x \in ADC_Prescalers :
        Called("CLOCK_SetADCPrescaler", ADC_DIV_x) /\ SetADCPrescaler(ADC_DIV_x)

CLOCK_SetMcoOutput ==
    \E MCO_x \in MicroClockOutputs :
        Called("CLOCK_SetMcoOutput", MCO_x) /\ SetMcoOutput(MCO_x)

----------------------------------------------------------------------------
(* CLOCK_SetSystemClockSpeed(SCS_x), one register access per step. *)

Call_SetSystemClockSpeed(speeds) ==
    /\ pc = "idle"
    /\ \E SCS_x \in speeds : arg' = SCS_x
    /\ op' = "CLOCK_SetSystemClockSpeed"
    /\ entry' = Snapshot
    /\ pc' = "L42"
    /\ UNCHANGED <<regs, statics, timerCalls, timerSCS>>

L42 ==
    /\ Goto("L42", "L182")
    /\ CFGR' = [CFGR EXCEPT !.PLLSRC = BitOr(@, 1)]
    /\ UNCHANGED <<CR, ACR, statics, timerCalls, timerSCS>>

(* EnableHSI_DisablePLL *)
L182 ==
    /\ Goto("L182", "L183")
    /\ CR' = [CR EXCEPT !.HSEON = BitOr(@, 1)]
    /\ UNCHANGED <<CFGR, ACR, statics, timerCalls, timerSCS>>

L183 ==
    /\ CR.HSERDY # 0
    /\ Goto("L183", "L185")
    /\ UNCHANGED <<regs, statics, timerCalls, timerSCS>>

L185 ==
    /\ Goto("L185", "L186")
    /\ CFGR' = [CFGR EXCEPT !.SW = BitAnd(@, 3 - RCC_CFGR_SW_Msk)]
    /\ UNCHANGED <<CR, ACR, statics, timerCalls, timerSCS>>

L186 ==
    /\ Goto("L186", "L188")
    /\ CFGR' = [CFGR EXCEPT !.SW = BitOr(@, RCC_CFGR_SW_HSE)]
    /\ UNCHANGED <<CR, ACR, statics, timerCalls, timerSCS>>

L188_NoWait ==
    /\ Goto("L188", "L190")
    /\ UNCHANGED <<regs, statics, timerCalls, timerSCS>>

L188 ==
    /\ BitAnd(CFGR.SWS, RCC_CFGR_SWS_HSE) # 0
    /\ Goto("L188", "L190")
    /\ UNCHANGED <<regs, statics, timerCalls, timerSCS>>

L190_KeepPLL ==
    /\ Goto("L190", "L46")
    /\ UNCHANGED <<regs, statics, timerCalls, timerSCS>>

L190 ==
    /\ Goto("L190", "L46")
    /\ CR' = [CR EXCEPT !.PLLON = 0]
    /\ UNCHANGED <<CFGR, ACR, statics, timerCalls, timerSCS>>

L46_KeepsMultiplier ==
    /\ pc = "L46"
    /\ pc' = IF arg \notin SupportedSpeeds THEN "L116"
             ELSE IF CaseHPRE(arg) = RCC_CFGR_HPRE_DIV1 THEN "L195"
             ELSE "L199"
    /\ CFGR' = [CFGR EXCEPT !.PLLXTPRE = 0, !.HPRE = 0, !.PPRE1 = 0]
    /\ UNCHANGED <<op, arg, entry, CR, ACR, statics, timerCalls, timerSCS>>

L46_SkipFlash ==
    /\ pc = "L46"
    /\ pc' = IF arg \notin SupportedSpeeds THEN "L116" ELSE "HPRE"
    /\ CFGR' = [CFGR EXCEPT !.PLLXTPRE = 0, !.PLLMULL = 0, !.HPRE = 0, !.PPRE1 = 0]
    /\ UNCHANGED <<op, arg, entry, CR, ACR, statics, timerCalls, timerSCS>>

(* Line 46, then the switch of line 48: a supported speed enters            *)
(* SetFlashMemorySpeed, whose first branch is on its second argument; the   *)
(* default case goes on to line 116.                                        *)
L46 ==
    /\ pc = "L46"
    /\ pc' = IF arg \notin SupportedSpeeds THEN "L116"
             ELSE IF CaseHPRE(arg) = RCC_CFGR_HPRE_DIV1 THEN "L195"
             ELSE "L199"
    /\ CFGR' = [CFGR EXCEPT !.PLLXTPRE = 0, !.PLLMULL = 0, !.HPRE = 0, !.PPRE1 = 0]
    /\ UNCHANGED <<op, arg, entry, CR, ACR, statics, timerCalls, timerSCS>>

(* SetFlashMemorySpeed *)
L195 ==
    /\ Goto("L195", "L196")
    /\ ACR' = [ACR EXCEPT !.PRFTBE = 0]
    /\ UNCHANGED <<CR, CFGR, statics, timerCalls, timerSCS>>

L196 ==
    /\ ACR.PRFTBS = 0
    /\ Goto("L196", "L211")
    /\ UNCHANGED <<regs, statics, timerCalls, timerSCS>>

L199 ==
    /\ Goto("L199", "L200")
    /\ ACR' = [ACR EXCEPT !.PRFTBE = 1]
    /\ UNCHANGED <<CR, CFGR, statics, timerCalls, timerSCS>>

L200 ==
    /\ ACR.PRFTBS = 0
    /\ Goto("L200", "L211")
    /\ UNCHANGED <<regs, statics, timerCalls, timerSCS>>

L211 ==
    /\ Goto("L211", "HPRE")
    /\ ACR' = [ACR EXCEPT !.LATENCY = FlashLatencyFor(arg)]
    /\ UNCHANGED <<CR, CFGR, statics, timerCalls, timerSCS>>

(* The three |= of the case taken: lines 58-60, 72-74, 86-88, 100-102 or 107-109. *)
WriteHPRE ==
    /\ Goto("HPRE", "PLLXTPRE")
    /\ CFGR' = [CFGR EXCEPT !.HPRE = BitOr(@, CaseHPRE(arg))]
    /\ UNCHANGED <<CR, ACR, statics, timerCalls, timerSCS>>

WritePLLXTPRE ==
    /\ Goto("PLLXTPRE", "PLLMULL")
    /\ CFGR' = [CFGR EXCEPT !.PLLXTPRE = BitOr(@, CasePLLXTPRE(arg))]
    /\ UNCHANGED <<CR, ACR, statics, timerCalls, timerSCS>>

WritePLLMULL ==
    /\ Goto("PLLMULL", "L116")
    /\ CFGR' = [CFGR EXCEPT !.PLLMULL = BitOr(@, CasePLLMULL(arg))]
    /\ UNCHANGED <<CR, ACR, statics, timerCalls, timerSCS>>

(* Lines 116-117: CLOCK_SetAPB1Prescaler(prescaler). *)
L116 ==
    /\ Goto("L116", "L172")
    /\ SetAPB1Prescaler(Apb1PrescalerFor(arg))
    /\ UNCHANGED <<timerCalls, timerSCS>>

(* DisableHSI_EnablePLL *)
L172 ==
    /\ Goto("L172", "L173")
    /\ CR' = [CR EXCEPT !.PLLON = BitOr(@, 1)]
    /\ UNCHANGED <<CFGR, ACR, statics, timerCalls, timerSCS>>

L173 ==
    /\ CR.PLLRDY # 0
    /\ Goto("L173", "L175")
    /\ UNCHANGED <<regs, statics, timerCalls, timerSCS>>

L175 ==
    /\ Goto("L175", "L176")
    /\ CFGR' = [CFGR EXCEPT !.SW = BitAnd(@, 3 - RCC_CFGR_SW_Msk)]
    /\ UNCHANGED <<CR, ACR, statics, timerCalls, timerSCS>>

L176 ==
    /\ Goto("L176", "L178")
    /\ CFGR' = [CFGR EXCEPT !.SW = BitOr(@, RCC_CFGR_SW_PLL)]
    /\ UNCHANGED <<CR, ACR, statics, timerCalls, timerSCS>>

L178_NoWait ==
    /\ Goto("L178", "L120")
    /\ UNCHANGED <<regs, statics, timerCalls, timerSCS>>

L178 ==
    /\ BitAnd(CFGR.SWS, RCC_CFGR_SWS_PLL) # 0
    /\ Goto("L178", "L120")
    /\ UNCHANGED <<regs, statics, timerCalls, timerSCS>>

L120 ==
    /\ Goto("L120", "L121")
    /\ timerCalls' = timerCalls + 1
    /\ timerSCS' = arg
    /\ UNCHANGED <<regs, statics>>

L121_NoCommit ==
    /\ Goto("L121", "ret")
    /\ UNCHANGED <<regs, statics, timerCalls, timerSCS>>

L121 ==
    /\ Goto("L121", "ret")
    /\ currentSCS' = arg
    /\ UNCHANGED <<regs, APB1_Prescaler, APB2_Prescaler, timerCalls, timerSCS>>

SetSystemClockSpeed_Steps ==
    \/ L42 \/ L182 \/ L183 \/ L185 \/ L186 \/ L188 \/ L190
    \/ L46
    \/ L195 \/ L196 \/ L199 \/ L200 \/ L211
    \/ WriteHPRE \/ WritePLLXTPRE \/ WritePLLMULL
    \/ L116
    \/ L172 \/ L173 \/ L175 \/ L176 \/ L178
    \/ L120 \/ L121

----------------------------------------------------------------------------
(* The hardware: each status flag follows its control bit. *)

HSE_Ready ==
    /\ CR.HSERDY # CR.HSEON
    /\ CR' = [CR EXCEPT !.HSERDY = CR.HSEON]
    /\ UNCHANGED <<pc, op, arg, entry, CFGR, ACR, statics, timerCalls, timerSCS>>

PLL_Ready ==
    /\ CR.PLLRDY # CR.PLLON
    /\ CR' = [CR EXCEPT !.PLLRDY = CR.PLLON]
    /\ UNCHANGED <<pc, op, arg, entry, CFGR, ACR, statics, timerCalls, timerSCS>>

Clock_Switch ==
    /\ CFGR.SWS # CFGR.SW
    /\ CFGR' = [CFGR EXCEPT !.SWS = CFGR.SW]
    /\ UNCHANGED <<pc, op, arg, entry, CR, ACR, statics, timerCalls, timerSCS>>

Prefetch_Status ==
    /\ ACR.PRFTBS # ACR.PRFTBE
    /\ ACR' = [ACR EXCEPT !.PRFTBS = ACR.PRFTBE]
    /\ UNCHANGED <<pc, op, arg, entry, CR, CFGR, statics, timerCalls, timerSCS>>

Hardware == HSE_Ready \/ PLL_Ready \/ Clock_Switch \/ Prefetch_Status

----------------------------------------------------------------------------

(* CLOCK_SetSystemClockSpeed with every speed, and the setter of the APB1    *)
(* prescaler, the one field of the setters that it writes too.             *)
NextClock ==
    \/ Call_SetSystemClockSpeed(SystemClockSpeeds)
    \/ SetSystemClockSpeed_Steps
    \/ CLOCK_SetAPB1Prescaler
    \/ Return
    \/ Hardware

SpecClock == Init /\ [][NextClock]_vars

(* Every public function, CLOCK_SetSystemClockSpeed with the first          *)
(* NumMixedSpeeds speeds of SpeedOrder.                                     *)
NumMixedSpeeds == 3

SpeedOrder == <<72 * MHz, 4 * MHz, 36 * MHz, 80 * MHz, 1 * MHz, 52 * MHz,
                24 * MHz, 48 * MHz, 17 * MHz, 8 * MHz>>

MixedSpeeds == { SpeedOrder[i] : i \in 1 .. NumMixedSpeeds }

Next ==
    \/ Call_SetSystemClockSpeed(MixedSpeeds)
    \/ SetSystemClockSpeed_Steps
    \/ CLOCK_SetAPB1Prescaler
    \/ CLOCK_SetAPB2Prescaler
    \/ CLOCK_SetADCPrescaler
    \/ CLOCK_SetMcoOutput
    \/ Return
    \/ Hardware

Spec == Init /\ [][Next]_vars

----------------------------------------------------------------------------
(* What the fields mean to the hardware. *)

HpreDivisor(hpre) ==
    CASE hpre = RCC_CFGR_HPRE_DIV2 -> 2
      [] hpre = RCC_CFGR_HPRE_DIV4 -> 4
      [] hpre = RCC_CFGR_HPRE_DIV8 -> 8
      [] OTHER -> 1

PllxtpreDivisor(pllxtpre) == IF pllxtpre = RCC_CFGR_PLLXTPRE_HSE_DIV2 THEN 2 ELSE 1

Returned(name) == pc = "ret" /\ op = name

InCall(name) == pc # "idle" /\ op = name

----------------------------------------------------------------------------
(* C1.  For each of the 33 supported speeds CLOCK_SetSystemClockSpeed       *)
(* leaves the AHB prescaler, the PLL predivider and the PLL multiplier      *)
(* field of the reference table, and the field encodes a multiplier in      *)
(* 2..16.  The table: <<MHz, AHB divisor, predivider, multiplier field>>.   *)

ReferenceTable ==
    { <<16, 1, 1, 0>>, <<24, 1, 1, 1>>, <<32, 1, 1, 2>>, <<40, 1, 1, 3>>,
      <<48, 1, 1, 4>>, <<56, 1, 1, 5>>, <<64, 1, 1, 6>>, <<72, 1, 1, 7>>,
      <<8, 1, 2, 0>>, <<12, 1, 2, 1>>, <<20, 1, 2, 3>>, <<28, 1, 2, 5>>,
      <<36, 1, 2, 7>>, <<44, 1, 2, 9>>, <<52, 1, 2, 11>>, <<60, 1, 2, 13>>,
      <<4, 2, 2, 0>>, <<6, 2, 2, 1>>, <<10, 2, 2, 3>>, <<14, 2, 2, 5>>,
      <<18, 2, 2, 7>>, <<22, 2, 2, 9>>, <<26, 2, 2, 11>>, <<30, 2, 2, 13>>,
      <<2, 4, 2, 0>>, <<3, 4, 2, 1>>, <<5, 4, 2, 3>>, <<7, 4, 2, 5>>,
      <<9, 4, 2, 7>>, <<11, 4, 2, 9>>, <<13, 4, 2, 11>>, <<15, 4, 2, 13>>,
      <<1, 8, 2, 0>> }

TableCoversSpeeds ==
    /\ Cardinality(SupportedSpeeds) = 33
    /\ { r[1] * MHz : r \in ReferenceTable } = SupportedSpeeds

C1_ReferenceTable ==
    /\ TableCoversSpeeds
    /\ (Returned("CLOCK_SetSystemClockSpeed") /\ arg \in SupportedSpeeds) =>
          /\ <<arg \div MHz, HpreDivisor(CFGR.HPRE), PllxtpreDivisor(CFGR.PLLXTPRE),
               CFGR.PLLMULL>> \in ReferenceTable
          /\ CFGR.HPRE \in {RCC_CFGR_HPRE_DIV1, RCC_CFGR_HPRE_DIV2,
                            RCC_CFGR_HPRE_DIV4, RCC_CFGR_HPRE_DIV8}
          /\ CFGR.PLLXTPRE \in {RCC_CFGR_PLLXTPRE_HSE, RCC_CFGR_PLLXTPRE_HSE_DIV2}
          /\ CFGR.PLLMULL + 2 \in 2 .. 16

C1_Witness ==
    /\ Returned("CLOCK_SetSystemClockSpeed")
    /\ arg = 1 * MHz
    /\ entry.currentSCS = 60 * MHz
    /\ entry.CFGR.PLLMULL = 13
    /\ CFGR.HPRE = RCC_CFGR_HPRE_DIV8
    /\ CFGR.PLLMULL = 0

----------------------------------------------------------------------------
(* C2.  When CLOCK_SetSystemClockSpeed(s) has returned for a supported s,   *)
(* CLOCK_GetSystemClockSpeed() is s and CLOCK_GetAPB1ClockSpeed() is s/2    *)
(* for s above 36 MHz and s otherwise.                                      *)

C2_QueriesAfterSet ==
    (Returned("CLOCK_SetSystemClockSpeed") /\ arg \in SupportedSpeeds) =>
        /\ CLOCK_GetSystemClockSpeed = arg
        /\ CLOCK_GetAPB1ClockSpeed = IF arg > 36 * MHz THEN arg \div 2 ELSE arg
        /\ arg = 72 * MHz => CLOCK_GetAPB1ClockSpeed = 36 * MHz
        /\ arg = 8 * MHz => CLOCK_GetAPB1ClockSpeed = 8 * MHz

C2_Witness ==
    /\ Returned("CLOCK_SetSystemClockSpeed")
    /\ arg = 72 * MHz
    /\ entry.currentSCS = 8 * MHz
    /\ entry.APB1_Prescaler = APB_DIV_16
    /\ CLOCK_GetSystemClockSpeed = 72 * MHz
    /\ CLOCK_GetAPB1ClockSpeed = 36 * MHz

----------------------------------------------------------------------------
(* C3.  When CLOCK_SetSystemClockSpeed(s) has returned, the APB1 prescaler  *)
(* is divide-by-2 in the register field and in the static exactly if s is   *)
(* above 36 MHz, and divide-by-1 in both otherwise, whatever it was at the  *)
(* call.                                                                    *)

C3_Apb1AutoSelect ==
    Returned("CLOCK_SetSystemClockSpeed") =>
        IF arg > 36 * MHz
        THEN CFGR.PPRE1 = RCC_CFGR_PPRE1_DIV2 /\ APB1_Prescaler = APB_DIV_2
        ELSE CFGR.PPRE1 = RCC_CFGR_PPRE1_DIV1 /\ APB1_Prescaler = APB_DIV_1

C3_Witness ==
    /\ Returned("CLOCK_SetSystemClockSpeed")
    /\ arg = 36 * MHz
    /\ entry.APB1_Prescaler = APB_DIV_8
    /\ entry.CFGR.PPRE1 = 6
    /\ CFGR.PPRE1 = RCC_CFGR_PPRE1_DIV1
    /\ APB1_Prescaler = APB_DIV_1

----------------------------------------------------------------------------
(* C4.  In every state CLOCK_GetAPB1ClockSpeed() and                        *)
(* CLOCK_GetAPB2ClockSpeed() are currentSCS divided by the divisor of the   *)
(* tracked prescaler: 1, 2, 4, 8, 16 for DIV1 .. DIV16, 1 for anything      *)
(* else.                                                                    *)

DivisorTable == { <<APB_DIV_1, 1>>, <<APB_DIV_2, 2>>, <<APB_DIV_4, 4>>,
                  <<APB_DIV_8, 8>>, <<APB_DIV_16, 16>> }

DivisorOf(prescaler) ==
    IF \E r \in DivisorTable : r[1] = prescaler
    THEN (CHOOSE r \in DivisorTable : r[1] = prescaler)[2]
    ELSE 1

DivisorMapping == \A v \in 0 .. 16 : APBxPrescalerToDivisor(v) = DivisorOf(v)

C4_BusSpeeds ==
    /\ CLOCK_GetAPB1ClockSpeed = currentSCS \div DivisorOf(APB1_Prescaler)
    /\ CLOCK_GetAPB2ClockSpeed = currentSCS \div DivisorOf(APB2_Prescaler)
    /\ DivisorMapping

C4_Witness ==
    /\ Returned("CLOCK_SetAPB2Prescaler")
    /\ arg = APB_DIV_16
    /\ APB1_Prescaler = APB_DIV_8
    /\ currentSCS = 72 * MHz
    /\ CLOCK_GetAPB1ClockSpeed = 9 * MHz
    /\ CLOCK_GetAPB2ClockSpeed = 4500000

----------------------------------------------------------------------------
(* C5.  In every state CLOCK_GetAPB1TimerClockSpeed() is twice              *)
(* CLOCK_GetAPB1ClockSpeed(), also when the APB1 prescaler is divide-by-1.  *)

C5_TimerSpeed ==
    CLOCK_GetAPB1TimerClockSpeed = 2 * (currentSCS \div DivisorOf(APB1_Prescaler))

C5_Witness ==
    /\ pc = "idle"
    /\ APB1_Prescaler = APB_DIV_1
    /\ currentSCS = 36 * MHz
    /\ CLOCK_GetAPB1ClockSpeed = 36 * MHz
    /\ CLOCK_GetAPB1TimerClockSpeed = 72 * MHz

----------------------------------------------------------------------------
(* C6.  CLOCK_SetMcoOutput(sel) writes the PLL/2 selector into the MCO      *)
(* field when currentSCS is above 50,000,000 at the call, and sel when it   *)
(* is not.                                                                  *)

C6_McoClamp ==
    Returned("CLOCK_SetMcoOutput") =>
        CFGR.MCO = IF entry.currentSCS > 50000000 THEN RCC_CFGR_MCO_PLLCLK_DIV2 ELSE arg

C6_Witness ==
    /\ Returned("CLOCK_SetMcoOutput")
    /\ entry.currentSCS = 72 * MHz
    /\ entry.CFGR.MCO = 5
    /\ arg = 4
    /\ CFGR.MCO = RCC_CFGR_MCO_PLLCLK_DIV2

----------------------------------------------------------------------------
(* C7.  For a supported target the flash latency left by                    *)
(* CLOCK_SetSystemClockSpeed is 0 wait states up to 24 MHz, 1 above 24 and  *)
(* up to 48 MHz, 2 above; so it never decreases as the target grows.        *)

WaitStatesFor(target) ==
    IF target <= 24 * MHz THEN 0 ELSE IF target <= 48 * MHz THEN 1 ELSE 2

LatencyMonotone ==
    \A t1, t2 \in SupportedSpeeds : t1 < t2 => FlashLatencyFor(t1) <= FlashLatencyFor(t2)

C7_FlashLatency ==
    /\ (Returned("CLOCK_SetSystemClockSpeed") /\ arg \in SupportedSpeeds) =>
           ACR.LATENCY = WaitStatesFor(arg)
    /\ LatencyMonotone

C7_Witness ==
    /\ Returned("CLOCK_SetSystemClockSpeed")
    /\ arg = 48 * MHz
    /\ entry.ACR.LATENCY = 2
    /\ ACR.LATENCY = 1

----------------------------------------------------------------------------
(* C8.  A CLOCK_SetSystemClockSpeed call with a value outside the supported *)
(* set changes nothing: the control fields of RCC->CR, RCC->CFGR and        *)
(* FLASH->ACR and currentSCS are as they were at the call.                  *)

ControlFields ==
    [HSEON |-> CR.HSEON, PLLON |-> CR.PLLON, SW |-> CFGR.SW, HPRE |-> CFGR.HPRE,
     PPRE1 |-> CFGR.PPRE1, PPRE2 |-> CFGR.PPRE2, ADCPRE |-> CFGR.ADCPRE,
     PLLSRC |-> CFGR.PLLSRC, PLLXTPRE |-> CFGR.PLLXTPRE, PLLMULL |-> CFGR.PLLMULL,
     MCO |-> CFGR.MCO, LATENCY |-> ACR.LATENCY, PRFTBE |-> ACR.PRFTBE]

EntryControlFields ==
    [HSEON |-> entry.CR.HSEON, PLLON |-> entry.CR.PLLON, SW |-> entry.CFGR.SW,
     HPRE |-> entry.CFGR.HPRE, PPRE1 |-> entry.CFGR.PPRE1, PPRE2 |-> entry.CFGR.PPRE2,
     ADCPRE |-> entry.CFGR.ADCPRE, PLLSRC |-> entry.CFGR.PLLSRC,
     PLLXTPRE |-> entry.CFGR.PLLXTPRE, PLLMULL |-> entry.CFGR.PLLMULL,
     MCO |-> entry.CFGR.MCO, LATENCY |-> entry.ACR.LATENCY, PRFTBE |-> entry.ACR.PRFTBE]

C8_UnsupportedIsNoOp ==
    (Returned("CLOCK_SetSystemClockSpeed") /\ arg \notin SupportedSpeeds) =>
        /\ ControlFields = EntryControlFields
        /\ currentSCS = entry.currentSCS

----------------------------------------------------------------------------
(* C9.  A CLOCK_SetSystemClockSpeed(target) call that returns has called    *)
(* TIMER_Init once, with target; it has not called it before the clock      *)
(* switch status shows the PLL, and it stores target into currentSCS only   *)
(* after the call of TIMER_Init.                                            *)

C9_NotifyOnce ==
    InCall("CLOCK_SetSystemClockSpeed") =>
        /\ pc \notin {"L121", "ret"} => timerCalls = 0
        /\ pc = "L120" => CFGR.SWS = RCC_CFGR_SWS_PLL /\ CFGR.SW = RCC_CFGR_SW_PLL
        /\ pc \in {"L121", "ret"} =>
              /\ timerCalls = 1
              /\ timerSCS = arg
              /\ CFGR.SWS = RCC_CFGR_SWS_PLL
        /\ pc # "ret" => currentSCS = entry.currentSCS
        /\ pc = "ret" => currentSCS = arg

C9_Witness ==
    /\ InCall("CLOCK_SetSystemClockSpeed")
    /\ pc = "L121"
    /\ arg = 72 * MHz
    /\ currentSCS = 4 * MHz
    /\ timerCalls = 1
    /\ timerSCS = 72 * MHz
    /\ CFGR.SWS = RCC_CFGR_SWS_PLL

----------------------------------------------------------------------------
(* C10.  In a CLOCK_SetSystemClockSpeed call for a supported target, every  *)
(* step that puts a new value into the AHB prescaler, the PLL predivider    *)
(* or the PLL multiplier field, that sets the PLL enable bit or that        *)
(* selects the PLL as system clock starts with the prefetch enable bit and  *)
(* the latency of the target already in FLASH->ACR.                         *)

ClockFieldWritten ==
    \/ CFGR'.HPRE # CFGR.HPRE /\ CFGR'.HPRE # 0
    \/ CFGR'.PLLXTPRE # CFGR.PLLXTPRE /\ CFGR'.PLLXTPRE # 0
    \/ CFGR'.PLLMULL # CFGR.PLLMULL /\ CFGR'.PLLMULL # 0
    \/ CR'.PLLON # CR.PLLON /\ CR'.PLLON = 1
    \/ CFGR'.SW # CFGR.SW /\ CFGR'.SW = RCC_CFGR_SW_PLL

FlashProgrammedFor(target) ==
    /\ ACR.PRFTBE = (IF HpreDivisor(CaseHPRE(target)) = 1 THEN 0 ELSE 1)
    /\ ACR.LATENCY = WaitStatesFor(target)

C10_FlashFirst ==
    [][ (InCall("CLOCK_SetSystemClockSpeed") /\ arg \in SupportedSpeeds /\ ClockFieldWritten)
            => FlashProgrammedFor(arg) ]_vars

C10_Witness ==
    /\ InCall("CLOCK_SetSystemClockSpeed")
    /\ pc = "PLLXTPRE"
    /\ arg = 4 * MHz
    /\ entry.ACR.LATENCY = 2
    /\ entry.ACR.PRFTBE = 0
    /\ ACR.LATENCY = 0
    /\ ACR.PRFTBE = 1
    /\ CFGR.HPRE = RCC_CFGR_HPRE_DIV2
    /\ entry.CFGR.HPRE = RCC_CFGR_HPRE_DIV1

----------------------------------------------------------------------------
(* C11.  In a CLOCK_SetSystemClockSpeed call every step that changes the    *)
(* PLL predivider or the PLL multiplier field starts with the clock switch  *)
(* status on the external oscillator and the PLL enable bit clear.          *)

HSEDriven ==
    /\ CFGR.SWS = RCC_CFGR_SWS_HSE
    /\ CFGR.SW = RCC_CFGR_SW_HSE
    /\ CR.PLLON = 0

PLLDriven ==
    /\ CFGR.SWS = RCC_CFGR_SWS_PLL
    /\ CFGR.SW = RCC_CFGR_SW_PLL
    /\ CR.PLLON = 1

PllFieldChanged ==
    \/ CFGR'.PLLXTPRE # CFGR.PLLXTPRE
    \/ CFGR'.PLLMULL # CFGR.PLLMULL

C11_PllWrittenWhileOff ==
    [][ PllFieldChanged => (InCall("CLOCK_SetSystemClockSpeed") /\ HSEDriven) ]_vars

C11_Witness ==
    /\ InCall("CLOCK_SetSystemClockSpeed")
    /\ pc = "L116"
    /\ arg = 72 * MHz
    /\ entry.CFGR.SWS = RCC_CFGR_SWS_PLL
    /\ entry.CR.PLLON = 1
    /\ entry.CFGR.PLLMULL = 13
    /\ entry.CFGR.PLLXTPRE = RCC_CFGR_PLLXTPRE_HSE_DIV2
    /\ CFGR.PLLMULL = 7
    /\ CFGR.PLLXTPRE = RCC_CFGR_PLLXTPRE_HSE
    /\ HSEDriven

----------------------------------------------------------------------------
(* C12.  A CLOCK_SetSystemClockSpeed call does not get past line 46 without *)
(* standing at it; there, and until the PLL is enabled again, the system    *)
(* clock is on the external oscillator with the PLL off; a call that has    *)
(* returned has left the system clock on the PLL.                           *)

Position(label) ==
    CASE label \in {"L42", "L182", "L183", "L185", "L186", "L188", "L190"} -> 1
      [] label = "L46" -> 2
      [] label \in {"L195", "L196", "L199", "L200", "L211", "HPRE", "PLLXTPRE",
                    "PLLMULL", "L116", "L172"} -> 3
      [] label \in {"L173", "L175", "L176", "L178"} -> 4
      [] label \in {"L120", "L121", "ret"} -> 5
      [] OTHER -> 0

PassesLine46 ==
    /\ (pc = "idle" /\ pc' # "idle" /\ op' = "CLOCK_SetSystemClockSpeed") => Position(pc') = 1
    /\ (InCall("CLOCK_SetSystemClockSpeed") /\ Position(pc) = 1) => Position(pc') <= 2

C12_ThroughHSE ==
    /\ [](InCall("CLOCK_SetSystemClockSpeed") =>
            /\ Position(pc) \in {2, 3} => HSEDriven
            /\ Position(pc) = 5 => PLLDriven)
    /\ [][PassesLine46]_vars

C12_Witness ==
    /\ Returned("CLOCK_SetSystemClockSpeed")
    /\ entry.CFGR.SWS = RCC_CFGR_SWS_PLL
    /\ entry.CR.PLLON = 1
    /\ entry.currentSCS = 4 * MHz
    /\ arg = 72 * MHz
    /\ PLLDriven

----------------------------------------------------------------------------
(* C13.  SetFlashMemorySpeed gets past its wait loop only with the prefetch *)
(* status equal to the prefetch enable bit it has just written: off for an  *)
(* AHB prescaler of 1, on for any other.                                    *)

C13_PrefetchConfirmed ==
    (InCall("CLOCK_SetSystemClockSpeed") /\ pc = "L211") =>
        /\ ACR.PRFTBE = (IF CaseHPRE(arg) = RCC_CFGR_HPRE_DIV1 THEN 0 ELSE 1)
        /\ ACR.PRFTBS = ACR.PRFTBE

----------------------------------------------------------------------------
(* C14.  With the processor running on and every status flag following     *)
(* its control bit, a CLOCK_SetSystemClockSpeed call for a supported target *)
(* returns, with the target in currentSCS.                                  *)

SpecClockFair ==
    /\ SpecClock
    /\ WF_vars(SetSystemClockSpeed_Steps)
    /\ WF_vars(HSE_Ready)
    /\ WF_vars(PLL_Ready)
    /\ WF_vars(Clock_Switch)
    /\ WF_vars(Prefetch_Status)

C14_RunsToCompletion ==
    (InCall("CLOCK_SetSystemClockSpeed") /\ arg \in SupportedSpeeds)
        ~> (Returned("CLOCK_SetSystemClockSpeed") /\ currentSCS = arg)

----------------------------------------------------------------------------
(* C15.  CLOCK_SetADCPrescaler, CLOCK_SetAPB1Prescaler and                  *)
(* CLOCK_SetAPB2Prescaler change their own field of RCC->CFGR, the APB      *)
(* setters their own static too, and no other control field or static;      *)
(* CLOCK_SetSystemClockSpeed leaves the APB2 prescaler, field and static,   *)
(* as it was.                                                               *)

EntryStatics == <<entry.currentSCS, entry.APB1_Prescaler, entry.APB2_Prescaler>>

C15_Frame ==
    /\ Returned("CLOCK_SetADCPrescaler") =>
          /\ ControlFields = [EntryControlFields EXCEPT !.ADCPRE = arg]
          /\ statics = EntryStatics
    /\ Returned("CLOCK_SetAPB1Prescaler") =>
          /\ ControlFields = [EntryControlFields EXCEPT !.PPRE1 = arg]
          /\ statics = <<entry.currentSCS, arg, entry.APB2_Prescaler>>
    /\ Returned("CLOCK_SetAPB2Prescaler") =>
          /\ ControlFields = [EntryControlFields EXCEPT !.PPRE2 = arg]
          /\ statics = <<entry.currentSCS, entry.APB1_Prescaler, arg>>
    /\ InCall("CLOCK_SetSystemClockSpeed") =>
          /\ CFGR.PPRE2 = entry.CFGR.PPRE2
          /\ APB2_Prescaler = entry.APB2_Prescaler

C15_Witness ==
    /\ Returned("CLOCK_SetAPB2Prescaler")
    /\ arg = APB_DIV_4
    /\ entry.CFGR.PPRE2 = 7
    /\ CFGR.PPRE2 = 5
    /\ CFGR.PPRE1 = RCC_CFGR_PPRE1_DIV2
    /\ CFGR.ADCPRE = 3
    /\ CFGR.MCO = RCC_CFGR_MCO_PLLCLK_DIV2
    /\ currentSCS = 72 * MHz
    /\ APB2_Prescaler = APB_DIV_4
    /\ APB1_Prescaler = APB_DIV_2

----------------------------------------------------------------------------
(* C16.  As long as only supported targets are set, the flash latency in    *)
(* FLASH->ACR is at every step at least the one the frequency at the output *)
(* of the system clock multiplexer needs: 8 MHz on an oscillator, 8 MHz     *)
(* divided by the predivider and multiplied by the multiplier on the PLL.   *)

OscillatorHz == 8000000

SysclkHz ==
    IF CFGR.SWS = RCC_CFGR_SWS_PLL
    THEN (OscillatorHz \div PllxtpreDivisor(CFGR.PLLXTPRE)) * (CFGR.PLLMULL + 2)
    ELSE OscillatorHz

OnlySupportedSoFar ==
    /\ currentSCS \in SupportedSpeeds \cup {0}
    /\ InCall("CLOCK_SetSystemClockSpeed") =>
          (arg \in SupportedSpeeds /\ entry.currentSCS \in SupportedSpeeds \cup {0})

C16_LatencyCoversSysclk ==
    OnlySupportedSoFar => ACR.LATENCY >= WaitStatesFor(SysclkHz)

----------------------------------------------------------------------------
(* C17.  Once CLOCK_SetMcoOutput has been called (the MCO field is not its  *)
(* reset value), the MCO field holds the PLL/2 selector in every state with *)
(* currentSCS above 50 MHz.                                                 *)

C17_ClampInvariant ==
    (currentSCS > 50 * MHz /\ CFGR.MCO # ResetCFGR.MCO) =>
        CFGR.MCO = RCC_CFGR_MCO_PLLCLK_DIV2

----------------------------------------------------------------------------
(* C18.  What CLOCK_SetSystemClockSpeed(s) leaves for a supported s is a    *)
(* function of s alone: PLL source, predivider, multiplier, AHB and APB1    *)
(* prescaler, clock switch, PLL and oscillator enable, prefetch enable,     *)
(* latency, currentSCS and APB1_Prescaler are the same after every history, *)
(* a preceding call with the same s included.                               *)

ClockConfiguration ==
    [PLLSRC |-> CFGR.PLLSRC, PLLXTPRE |-> CFGR.PLLXTPRE, PLLMULL |-> CFGR.PLLMULL,
     HPRE |-> CFGR.HPRE, PPRE1 |-> CFGR.PPRE1, SW |-> CFGR.SW, SWS |-> CFGR.SWS,
     HSEON |-> CR.HSEON, PLLON |-> CR.PLLON,
     PRFTBE |-> ACR.PRFTBE, LATENCY |-> ACR.LATENCY,
     currentSCS |-> currentSCS, APB1_Prescaler |-> APB1_Prescaler]

ConfigurationOf(s) ==
    LET row == CHOOSE r \in ReferenceTable : r[1] * MHz = s
    IN  [PLLSRC |-> 1,
         PLLXTPRE |-> row[3] - 1,
         PLLMULL |-> row[4],
         HPRE |-> (CASE row[2] = 1 -> RCC_CFGR_HPRE_DIV1
                     [] row[2] = 2 -> RCC_CFGR_HPRE_DIV2
                     [] row[2] = 4 -> RCC_CFGR_HPRE_DIV4
                     [] row[2] = 8 -> RCC_CFGR_HPRE_DIV8),
         PPRE1 |-> IF s > 36 * MHz THEN RCC_CFGR_PPRE1_DIV2 ELSE RCC_CFGR_PPRE1_DIV1,
         SW |-> RCC_CFGR_SW_PLL, SWS |-> RCC_CFGR_SWS_PLL,
         HSEON |-> 1, PLLON |-> 1,
         PRFTBE |-> IF row[2] = 1 THEN 0 ELSE 1,
         LATENCY |-> WaitStatesFor(s),
         currentSCS |-> s,
         APB1_Prescaler |-> IF s > 36 * MHz THEN APB_DIV_2 ELSE APB_DIV_1]

C18_HistoryIndependent ==
    (Returned("CLOCK_SetSystemClockSpeed") /\ arg \in SupportedSpeeds) =>
        ClockConfiguration = ConfigurationOf(arg)

C18_Witness ==
    /\ Returned("CLOCK_SetSystemClockSpeed")
    /\ arg = 4 * MHz
    /\ entry.currentSCS = 4 * MHz
    /\ entry.APB1_Prescaler = APB_DIV_16
    /\ entry.CFGR.PPRE2 # ResetCFGR.PPRE2
    /\ entry.CFGR.MCO # ResetCFGR.MCO
    /\ ClockConfiguration = ConfigurationOf(4 * MHz)

----------------------------------------------------------------------------
(* C20.  For every supported target t, 1 MHz included, the fields left by   *)
(* CLOCK_SetSystemClockSpeed give t: 8 MHz by the predivider, times the     *)
(* multiplier field plus 2, by the AHB divisor; no division leaves a        *)
(* remainder and the multiplier field is not negative.                      *)

C20_NominalFrequency ==
    (Returned("CLOCK_SetSystemClockSpeed") /\ arg \in SupportedSpeeds) =>
        LET input == OscillatorHz \div PllxtpreDivisor(CFGR.PLLXTPRE)
            pll == input * (CFGR.PLLMULL + 2)
        IN  /\ OscillatorHz % PllxtpreDivisor(CFGR.PLLXTPRE) = 0
            /\ pll % HpreDivisor(CFGR.HPRE) = 0
            /\ pll \div HpreDivisor(CFGR.HPRE) = arg
            /\ arg % CaseDivisor(arg) = 0
            /\ CFGR.PLLMULL >= 0
            /\ CFGR.PLLMULL = CasePLLMULL(arg)

C20_Witness ==
    /\ Returned("CLOCK_SetSystemClockSpeed")
    /\ arg = 1 * MHz
    /\ entry.currentSCS = 72 * MHz
    /\ CFGR.PLLXTPRE = RCC_CFGR_PLLXTPRE_HSE_DIV2
    /\ CFGR.PLLMULL = 0
    /\ CFGR.HPRE = RCC_CFGR_HPRE_DIV8

----------------------------------------------------------------------------
(* C19.  In every state of a CLOCK_SetSystemClockSpeed call, between any    *)
(* two register writes included, the SW field selects the external          *)
(* oscillator or the PLL and never the internal oscillator; the states      *)
(* before line 186 has selected the external oscillator are left out, as    *)
(* the field may still hold the reset selection the caller found.           *)

SwWrittenInCall == Position(pc) >= 2 \/ pc \in {"L188", "L190"}

C19_NeverInternal ==
    (InCall("CLOCK_SetSystemClockSpeed") /\ SwWrittenInCall) =>
        CFGR.SW \in {RCC_CFGR_SW_HSE, RCC_CFGR_SW_PLL}

====
